---- MODULE Spec2Model ----
(***************************************************************************)
(* browser-enhancer: the POST /enhance and POST /stream_messages handlers  *)
(* (app/server.py), the model/tool graph and the enhance_memory_response   *)
(* capability (app/agent.py), and the crew it runs (app/crew/crew.py).     *)
(*                                                                         *)
(* Text is modelled as a sequence of tokens (each token a piece of text),  *)
(* so that concatenation, joining, stripping and containment are computed  *)
(* as the code computes them.  Similarities are IEEE-754 doubles: a 53-bit *)
(* significand held as a natural number of any size and a binary exponent, *)
(* with round-to-nearest-even after every operation.                       *)
(***************************************************************************)
EXTENDS Integers, Sequences, FiniteSets, TLC

(***************************************************************************)
(* Bounds of the model.                                                    *)
(***************************************************************************)
\* longest relevantMemories array of a request
MaxMemories == 4
\* longest userContext array of a request
MaxContext == 2
\* most tool calls one model reply carries
MaxToolCalls == 2
\* supersteps the graph runtime runs before it gives up on a run
\* (config["recursion_limit"]; the model's value is smaller than the default)
StepLimit == 4

(***************************************************************************)
(* Text: sequences of tokens.                                              *)
(***************************************************************************)
Digits == << "0", "1", "2", "3", "4", "5", "6", "7", "8", "9" >>

\* str(n) of a natural number
RECURSIVE NatStr(_)
NatStr(n) == IF n < 10 THEN << Digits[n + 1] >>
             ELSE NatStr(n \div 10) \o << Digits[(n % 10) + 1] >>

\* the one element of a singleton: Only({ e(x) : x \in { a } }) is e(a)
\* with a evaluated once
Only(S) == CHOOSE r \in S : TRUE

RECURSIVE ConcatFrom(_, _)
ConcatFrom(ss, i) == IF i > Len(ss) THEN << >> ELSE ss[i] \o ConcatFrom(ss, i + 1)

Concat(ss) == Only({ ConcatFrom(v, 1) : v \in { ss } })

\* sep.join(ss)
RECURSIVE JoinFrom(_, _, _)
JoinFrom(sep, ss, i) ==
    IF i > Len(ss) THEN << >>
    ELSE IF i = Len(ss) THEN ss[i]
    ELSE ss[i] \o sep \o JoinFrom(sep, ss, i + 1)

Join(sep, ss) == Only({ JoinFrom(sep, v, 1) : v \in { ss } })

IsSpace(t) == t \in { " ", "\n", "\t" }

RECURSIVE LStrip(_)
LStrip(s) == IF s /= << >> /\ IsSpace(Head(s)) THEN LStrip(Tail(s)) ELSE s

RECURSIVE RStrip(_)
RStrip(s) == IF s /= << >> /\ IsSpace(s[Len(s)])
             THEN RStrip(SubSeq(s, 1, Len(s) - 1)) ELSE s

\* s.strip()
Strip(s) == RStrip(LStrip(s))

\* needle in hay
Contains(hay, needle) ==
    \E i \in 0..(Len(hay) - Len(needle)) :
        SubSeq(hay, i + 1, i + Len(needle)) = needle

IsPrefix(p, s) == Len(p) <= Len(s) /\ SubSeq(s, 1, Len(p)) = p

(***************************************************************************)
(* Natural numbers of any size: little-endian sequences of limbs in base   *)
(* 2^14 without leading zero limbs (<< >> is zero).  Each operator takes   *)
(* the value of its arguments once, through Only.                          *)
(***************************************************************************)
Pow2Table == << 1, 2, 4, 8, 16, 32, 64, 128, 256, 512, 1024, 2048, 4096,
                8192, 16384 >>

LimbBits == Len(Pow2Table) - 1

Base == Pow2Table[LimbBits + 1]

RECURSIVE TrimTo(_, _)
TrimTo(a, n) == IF n = 0 THEN << >>
                ELSE IF a[n] = 0 THEN TrimTo(a, n - 1) ELSE SubSeq(a, 1, n)

Trim(a) == Only({ TrimTo(x, Len(x)) : x \in { a } })

LimbAt(a, i) == IF i <= Len(a) THEN a[i] ELSE 0

AddStep(limb, rest) == << limb % Base >> \o rest

RECURSIVE AddFrom(_, _, _, _)
AddFrom(a, b, i, c) ==
    IF i > Len(a) /\ i > Len(b)
    THEN (IF c = 0 THEN << >> ELSE << c >>)
    ELSE Only({ AddStep(t, AddFrom(a, b, i + 1, t \div Base)) :
                  t \in { LimbAt(a, i) + LimbAt(b, i) + c } })

AddNat(a, b) == Only({ AddFrom(x, y, 1, 0) : x \in { a }, y \in { b } })

\* a - b for a >= b
RECURSIVE SubFrom(_, _, _, _)
SubFrom(a, b, i, c) ==
    IF i > Len(a) THEN << >>
    ELSE Only({ AddStep(Base + t, SubFrom(a, b, i + 1, IF t < 0 THEN 1 ELSE 0)) :
                  t \in { a[i] - LimbAt(b, i) - c } })

SubNat(a, b) == Only({ Trim(SubFrom(x, y, 1, 0)) : x \in { a }, y \in { b } })

\* a <= b, compared from the most significant limb down
RECURSIVE LeqFrom(_, _, _)
LeqFrom(a, b, i) == IF i = 0 THEN TRUE
                    ELSE IF a[i] /= b[i] THEN a[i] < b[i]
                    ELSE LeqFrom(a, b, i - 1)

LeqNat(a, b) ==
    Only({ IF Len(x) /= Len(y) THEN Len(x) < Len(y) ELSE LeqFrom(x, y, Len(x)) :
             x \in { a }, y \in { b } })

AbsDiff(a, b) ==
    Only({ IF LeqNat(x, y) THEN SubNat(y, x) ELSE SubNat(x, y) :
             x \in { a }, y \in { b } })

\* a * n for a small n (n <= Base)
RECURSIVE MulFrom(_, _, _, _)
MulFrom(a, n, i, c) ==
    IF i > Len(a) THEN (IF c = 0 THEN << >> ELSE << c >>)
    ELSE Only({ AddStep(t, MulFrom(a, n, i + 1, t \div Base)) :
                  t \in { a[i] * n + c } })

MulSmall(a, n) ==
    Only({ IF k = 0 THEN << >> ELSE MulFrom(x, k, 1, 0) : x \in { a }, k \in { n } })

\* long division by the small number n of the number that limbs i.. of a
\* spell, most significant limb first: quotient and remainder
DivStep(hi, limb, n) ==
    Only({ [q |-> << (h.r * Base + limb) \div n >> \o h.q,
            r |-> (h.r * Base + limb) % n] : h \in { hi } })

RECURSIVE DivFrom(_, _, _)
DivFrom(a, n, i) ==
    IF i > Len(a) THEN [q |-> << >>, r |-> 0]
    ELSE DivStep(DivFrom(a, n, i + 1), a[i], n)

DivSmall(a, n) ==
    Only({ [q |-> Trim(d.q), r |-> d.r] :
             d \in { Only({ DivFrom(x, k, 1) : x \in { a }, k \in { n } }) } })

\* a * 2^s
ShiftL(a, s) ==
    Only({ IF x = << >> THEN << >>
           ELSE [i \in 1..(k \div LimbBits) |-> 0]
                \o MulSmall(x, Pow2Table[(k % LimbBits) + 1]) :
             x \in { a }, k \in { s } })

\* a \div 2^s
ShiftR(a, s) ==
    Only({ IF k \div LimbBits >= Len(x) THEN << >>
           ELSE DivSmall(SubSeq(x, (k \div LimbBits) + 1, Len(x)),
                         Pow2Table[(k % LimbBits) + 1]).q :
             x \in { a }, k \in { s } })

\* the number of bits of a
BitLen(a) ==
    Only({ IF x = << >> THEN 0
           ELSE LimbBits * (Len(x) - 1)
                + (CHOOSE k \in 1..LimbBits :
                      Pow2Table[k] <= x[Len(x)] /\ x[Len(x)] < Pow2Table[k + 1]) :
             x \in { a } })

IsOdd(a) == Only({ x /= << >> /\ x[1] % 2 = 1 : x \in { a } })

RECURSIVE NatFrom(_, _)
NatFrom(a, i) == IF i > Len(a) THEN 0 ELSE a[i] + Base * NatFrom(a, i + 1)

NatValue(a) == Only({ NatFrom(x, 1) : x \in { a } })

\* hexadecimal digits, most significant first
RECURSIVE FromHexFrom(_, _)
FromHexFrom(h, i) ==
    IF i = 0 THEN << >>
    ELSE AddNat(MulSmall(FromHexFrom(h, i - 1), 16),
                IF h[i] = 0 THEN << >> ELSE << h[i] >>)

FromHex(h) == FromHexFrom(h, Len(h))

\* x, of which q is the whole multiples of 2^k, rounded to the nearest
\* multiple of 2^k, in units of 2^k, ties to even
RoundUp(x, q, k) ==
    Only({ IF twice = ShiftL(<< 1 >>, k) THEN IsOdd(q)
           ELSE LeqNat(ShiftL(<< 1 >>, k), twice) :
             twice \in { MulSmall(SubNat(x, ShiftL(q, k)), 2) } })

RoundShiftR(a, s) ==
    Only({ IF k <= 0 THEN ShiftL(x, 0 - k)
           ELSE Only({ IF RoundUp(x, q, k) THEN AddNat(q, << 1 >>) ELSE q :
                         q \in { ShiftR(x, k) } }) :
             x \in { a }, k \in { s } })

(***************************************************************************)
(* Python numbers.  A float is an IEEE-754 double m * 2^e with m a 53-bit  *)
(* significand (most significant bit set), or zero (m = << >>); only       *)
(* non-negative normal values arise.  An int is kept apart from a float:   *)
(* the handler returns the int 0 for an empty array.                       *)
(***************************************************************************)
SignificandBits == 53

PyInt(n) == [type |-> "int", n |-> n, m |-> << >>, e |-> 0]

PyFloat(m, e) == [type |-> "float", n |-> 0, m |-> m, e |-> e]

\* r, which is x * 2^-k rounded, as a double with exponent e + k
Renormalized(r, e, k) ==
    IF BitLen(r) > SignificandBits
    THEN PyFloat(ShiftR(r, 1), e + k + 1)
    ELSE PyFloat(r, e + k)

\* the double nearest to a * 2^e, ties to even
RoundNearestEven(a, e) ==
    Only({ IF x = << >> THEN PyFloat(<< >>, 0)
           ELSE Only({ Only({ Renormalized(r, e, k) : r \in { RoundShiftR(x, k) } }) :
                         k \in { BitLen(x) - SignificandBits } }) :
             x \in { a } })

MinInt(a, b) == Only({ IF x <= y THEN x ELSE y : x \in { a }, y \in { b } })

\* float + float
FloatAdd(a, b) ==
    Only({ IF x.m = << >> THEN y
           ELSE IF y.m = << >> THEN x
           ELSE Only({ RoundNearestEven(
                           AddNat(ShiftL(x.m, x.e - e), ShiftL(y.m, y.e - e)), e) :
                         e \in { MinInt(x.e, y.e) } }) :
             x \in { a }, y \in { b } })

\* int + float and float + float: sum() starts from the int 0
PyAdd(acc, x) ==
    Only({ IF v.type = "int" THEN w ELSE FloatAdd(v, w) :
             v \in { acc }, w \in { x } })

\* float / int, for n >= 1.  The quotient is carried n + 2 bits beyond the
\* significand, and one more bit below them says whether a remainder is
\* left, so that rounding sees the exact quotient's side of every tie.
QuotientWithSticky(m, n) ==
    Only({ AddNat(MulSmall(d.q, 2), IF d.r = 0 THEN << >> ELSE << 1 >>) :
             d \in { DivSmall(ShiftL(m, n + 2), n) } })

PyTrueDiv(a, n) ==
    Only({ IF x.m = << >> THEN PyFloat(<< >>, 0)
           ELSE RoundNearestEven(QuotientWithSticky(x.m, n), x.e - (n + 3)) :
             x \in { a } })

\* f"{x:.2f}" of a float 0 <= x
FormatFixed2(x) ==
    Only({ NatStr(h \div 100) \o << "." >>
           \o << Digits[((h \div 10) % 10) + 1], Digits[(h % 10) + 1] >> :
             h \in { NatValue(RoundShiftR(MulSmall(x.m, 100), 0 - x.e)) } })

\* the doubles that JSON's 0.8, 0.4 and 0.1 parse to
\* (0x1.999999999999ap-1, 0x1.999999999999ap-2, 0x1.999999999999ap-4)
Sig999A == FromHex(<< 1, 9, 9, 9, 9, 9, 9, 9, 9, 9, 9, 9, 9, 10 >>)

Float0_8 == PyFloat(Sig999A, 0 - 53)

Float0_4 == PyFloat(Sig999A, 0 - 54)

Float0_1 == PyFloat(Sig999A, 0 - 56)

(***************************************************************************)
(* Requests (server.py, BrowserMemory and BrowserMemoryRequest).           *)
(***************************************************************************)
BrowserMemory(title, similarity) ==
    [title |-> title, content |-> << "page text" >>,
     url |-> << "https://example.org" >>, similarity |-> similarity,
     timestamp |-> << >>]

MemoryA == BrowserMemory(<< "LangGraph docs" >>, Float0_8)

MemoryB == BrowserMemory(<< "Rust async book" >>, Float0_4)

MemoryC == BrowserMemory(<< "TLA+ examples" >>, Float0_1)

MemoryPool == { MemoryA, MemoryB, MemoryC }

ContextStrings == { << "likes rust" >>, << "asked", "\n", "twice" >> }

Queries == { << "wassup" >>, << "what", " ", "did I read?" >> }

SeqsUpTo(S, n) == UNION { [1..k -> S] : k \in 0..n }

BrowserMemoryRequest(query, memories, context) ==
    [query |-> query, relevantMemories |-> memories, userContext |-> context]

\* every array of memories and of context strings within the bounds
WideRequests ==
    { BrowserMemoryRequest(<< "wassup" >>, ms, cs) :
        ms \in SeqsUpTo(MemoryPool, MaxMemories),
        cs \in SeqsUpTo(ContextStrings, MaxContext) }

\* a few requests: no, one and two memories; no and one context string
FewRequests ==
    { BrowserMemoryRequest(q, ms, cs) :
        q \in Queries,
        ms \in { << >>, << MemoryA >>, << MemoryA, MemoryB >> },
        cs \in { << >>, << << "likes rust" >> >> } }

\* the chat inputs of POST /stream_messages: one human message
ChatInputs == { BrowserMemoryRequest(q, << >>, << >>) : q \in Queries }

(***************************************************************************)
(* The crew (crew.py) as the capability sees it: kickoff raises, or         *)
(* returns an object of which the capability reads raw, tasks_output and   *)
(* str().                                                                  *)
(***************************************************************************)
\* analyze_memory_task, generate_insights_task, enhance_response_task
CrewTasks == 3

TaskOutput(hasRaw, raw) == [hasRaw |-> hasRaw, raw |-> raw]

CrewOutput(hasRaw, raw, hasTasks, tasks, str) ==
    [raises |-> FALSE, hasRaw |-> hasRaw, raw |-> raw,
     hasTasks |-> hasTasks, tasks_output |-> tasks, str |-> str]

KickoffRaises ==
    [raises |-> TRUE, hasRaw |-> FALSE, raw |-> << >>,
     hasTasks |-> FALSE, tasks_output |-> << >>, str |-> << >>]

RawTexts == { << >>, << " " >>, << "final" >>, << " ", "final", "\n" >> }

TaskOutputs ==
    { TaskOutput(FALSE, << >>), TaskOutput(TRUE, << >>),
      TaskOutput(TRUE, << "task", " " >>) }

StrTexts == { << "repr" >>, << "\n", "repr" >> }

AllCrewOutputs ==
    { CrewOutput(FALSE, << >>, ht, ts, st) :
        ht \in BOOLEAN, ts \in SeqsUpTo(TaskOutputs, CrewTasks), st \in StrTexts }
    \cup
    { CrewOutput(TRUE, r, ht, ts, st) :
        r \in RawTexts, ht \in BOOLEAN,
        ts \in SeqsUpTo(TaskOutputs, CrewTasks), st \in StrTexts }

\* an object without tasks_output carries none
AllKickoffs ==
    { k \in AllCrewOutputs : k.hasTasks \/ k.tasks_output = << >> }
    \cup { KickoffRaises }

FewKickoffs ==
    { KickoffRaises,
      CrewOutput(TRUE, << "final" >>, TRUE,
                 << TaskOutput(TRUE, << "final" >>) >>, << "final" >>) }

OnlyRaises == { KickoffRaises }

(***************************************************************************)
(* agent.py                                                                *)
(***************************************************************************)
Fallback ==
    << "Hey! I see you've been browsing some interesting stuff. What's up?" >>

Returned(text) == [raised |-> FALSE, text |-> text]

Propagated == [raised |-> TRUE, text |-> << >>]

LastTask(kick) == kick.tasks_output[Len(kick.tasks_output)]

\* as enhance_memory_response, with "return str(e)" in the except clause
enhance_memory_response_ErrorText(kick) ==
    IF kick.raises THEN Returned(<< "crew failed" >>)
    ELSE IF kick.hasRaw /\ kick.raw /= << >> THEN Returned(Strip(kick.raw))
    ELSE IF /\ kick.hasTasks
            /\ kick.tasks_output /= << >>
            /\ LastTask(kick).hasRaw
            /\ LastTask(kick).raw /= << >>
    THEN Returned(Strip(LastTask(kick).raw))
    ELSE Returned(Strip(kick.str))

\* as enhance_memory_response, without the try around kickoff
enhance_memory_response_NoTry(kick) ==
    IF kick.raises THEN Propagated
    ELSE IF kick.hasRaw /\ kick.raw /= << >> THEN Returned(Strip(kick.raw))
    ELSE IF /\ kick.hasTasks
            /\ kick.tasks_output /= << >>
            /\ LastTask(kick).hasRaw
            /\ LastTask(kick).raw /= << >>
    THEN Returned(Strip(LastTask(kick).raw))
    ELSE Returned(Strip(kick.str))

\* as enhance_memory_response, reading tasks_output[0] for tasks_output[-1]
enhance_memory_response_FirstTask(kick) ==
    IF kick.raises THEN Returned(Fallback)
    ELSE IF kick.hasRaw /\ kick.raw /= << >> THEN Returned(Strip(kick.raw))
    ELSE IF /\ kick.hasTasks
            /\ kick.tasks_output /= << >>
            /\ kick.tasks_output[1].hasRaw
            /\ kick.tasks_output[1].raw /= << >>
    THEN Returned(Strip(kick.tasks_output[1].raw))
    ELSE Returned(Strip(kick.str))

\* enhance_memory_response, given what kickoff does: the text it returns,
\* or the exception it lets through
enhance_memory_response(kick) ==
    IF kick.raises THEN Returned(Fallback)
    ELSE IF kick.hasRaw /\ kick.raw /= << >> THEN Returned(Strip(kick.raw))
    ELSE IF /\ kick.hasTasks
            /\ kick.tasks_output /= << >>
            /\ LastTask(kick).hasRaw
            /\ LastTask(kick).raw /= << >>
    THEN Returned(Strip(LastTask(kick).raw))
    ELSE Returned(Strip(kick.str))

HumanMessage(content) ==
    [type |-> "human", content |-> content, tool_calls |-> 0, crew |-> << >>]

AIMessage(reply) ==
    [type |-> "ai", content |-> reply.content, tool_calls |-> reply.tool_calls,
     crew |-> << >>]

\* the ToolNode's message for one call; crew records what kickoff did
ToolMessage(content, kick) ==
    [type |-> "tool", content |-> content, tool_calls |-> 0, crew |-> << kick >>]

\* what the model may reply: text or none, with or without tool calls
ModelReplies ==
    [content : { << >>, << "Hey! Not much." >> }, tool_calls : 0..MaxToolCalls]

\* a model that asks for the capability at most once per reply
SimpleReplies ==
    { [content |-> << "Hey! Not much." >>, tool_calls |-> 0],
      [content |-> << >>, tool_calls |-> 1] }

\* as should_continue, with the two branches exchanged
should_continue_Inverted(state) ==
    IF state[Len(state)].tool_calls > 0 THEN "END" ELSE "memory_crew"

\* as should_continue, ending the conversation whatever the reply
should_continue_AlwaysEnd(state) == "END"

should_continue(state) ==
    IF state[Len(state)].tool_calls > 0 THEN "memory_crew" ELSE "END"

(***************************************************************************)
(* server.py                                                               *)
(***************************************************************************)
\* the f-string of one memory
MemoryText(memory) ==
    << "Title: " >> \o memory.title
    \o << "\nURL: " >> \o memory.url
    \o << "\nContent: " >> \o memory.content
    \o << "\nRelevance: " >> \o FormatFixed2(memory.similarity)

memories_text(req) ==
    Join(<< "\n\n" >>,
         [i \in 1..Len(req.relevantMemories) |-> MemoryText(req.relevantMemories[i])])

\* as user_context_text, joining with a space
user_context_text_SpaceJoined(req) ==
    IF req.userContext /= << >> THEN Join(<< " " >>, req.userContext)
    ELSE << "No previous context" >>

user_context_text(req) ==
    IF req.userContext /= << >> THEN Join(<< "\n" >>, req.userContext)
    ELSE << "No previous context" >>

\* the content of the HumanMessage handed to the graph
PromptText(req) ==
    << "Query: " >> \o req.query
    \o << "\n\nRelevant Memories:\n" >> \o memories_text(req)
    \o << "\n\nUser Context:\n" >> \o user_context_text(req)

\* as ChunkText, taking the snapshot's last message only
ChunkText_LastOnly(msgs) ==
    IF msgs[Len(msgs)].content /= << >> THEN msgs[Len(msgs)].content ELSE << >>

\* what one streamed snapshot adds to response_content
ChunkText(msgs) ==
    Concat([i \in 1..Len(msgs) |->
               IF msgs[i].content /= << >> THEN msgs[i].content ELSE << >>])

TopTopicsLimit == 3

\* as topTopics, without the [:3]
topTopics_AllTitles(req) ==
    [i \in 1..Len(req.relevantMemories) |-> req.relevantMemories[i].title]

topTopics(req) ==
    [i \in 1..MinInt(TopTopicsLimit, Len(req.relevantMemories)) |->
        req.relevantMemories[i].title]

\* sum(m.similarity for m in relevantMemories), left to right from int 0
RECURSIVE SumFrom(_, _, _)
SumFrom(ms, i, acc) ==
    IF i > Len(ms) THEN acc
    ELSE Only({ SumFrom(ms, i + 1, v) : v \in { PyAdd(acc, ms[i].similarity) } })

\* as averageRelevance, without the division by the count
averageRelevance_NoDivision(req) ==
    IF req.relevantMemories /= << >>
    THEN SumFrom(req.relevantMemories, 1, PyInt(0))
    ELSE PyInt(0)

averageRelevance(req) ==
    IF req.relevantMemories /= << >>
    THEN PyTrueDiv(SumFrom(req.relevantMemories, 1, PyInt(0)),
                   Len(req.relevantMemories))
    ELSE PyInt(0)

\* the EnhancementResponse of the try block
SuccessResponse(req, content) ==
    [enhancedResponse |-> content,
     agentInsights |->
        [memoriesAnalyzed |-> Len(req.relevantMemories),
         topTopics |-> topTopics(req),
         averageRelevance |-> averageRelevance(req)],
     processingDetails |->
        [agentType |-> "multi_agent_crew", model |-> "gpt-3.5-turbo",
         processedAt |-> "local_testing"]]

ApologyText(req) ==
    << "I apologize, but I encountered an error while processing your request. Here's what I can tell you based on your query '" >>
    \o req.query \o << "': " >>
    \o (IF req.relevantMemories /= << >>
        THEN << "You have " >> \o NatStr(Len(req.relevantMemories))
             \o << " relevant memories that might help answer this question." >>
        ELSE << "No relevant memories were found." >>)

\* the EnhancementResponse of the except block
ErrorResponse(req, e) ==
    [enhancedResponse |-> ApologyText(req),
     agentInsights |-> [error |-> "Agent processing failed", fallback |-> TRUE],
     processingDetails |-> [error |-> e]]

\* as ExceptClause, raising again
ExceptClause_Reraise(req, e) == [status |-> "500", response |-> << >>]

\* except Exception as e: what POST /enhance ends with
ExceptClause(req, e) == [status |-> "200", response |-> << ErrorResponse(req, e) >>]

VARIABLES
    endpoint,          \* "enhance" or "stream_messages"
    request,           \* the validated request body
    pc,                \* where the handler is: "format", "stream", "done"
    messages,          \* the graph's state["messages"]
    node,              \* the node the graph runs next: "agent", "memory_crew", "END"
    steps,             \* supersteps the graph has run
    chunks,            \* what agent.stream has yielded: for "values" the size
                       \* of each snapshot, for "messages" the index of each message
    response_content,  \* the handler's accumulator
    response,          \* << >> or << the EnhancementResponse returned >>
    status,            \* "pending", "200", or how the call failed
    exc,               \* the exception raised, "none" if none
    invocations        \* times enhance_memory_response has run

vars == << endpoint, request, pc, messages, node, steps, chunks,
           response_content, response, status, exc, invocations >>

InitWith(enhanceRequests, chatInputs) ==
    /\ \/ endpoint = "enhance" /\ request \in enhanceRequests /\ pc = "format"
       \/ endpoint = "stream_messages" /\ request \in chatInputs /\ pc = "stream"
    /\ messages = << >>
    /\ node = "agent"
    /\ steps = 0
    /\ chunks = << >>
    /\ response_content = << >>
    /\ response = << >>
    /\ status = "pending"
    /\ exc = "none"
    /\ invocations = 0

\* an exception e leaves the try block of enhance_browser_memories, or the
\* generator of stream_messages, which has no handler
HandleException(e) ==
    /\ pc' = "done"
    /\ exc' = e
    /\ IF endpoint = "enhance"
       THEN /\ status' = ExceptClause(request, e).status
            /\ response' = ExceptClause(request, e).response
       ELSE /\ status' = "stream aborted"
            /\ response' = << >>

\* the for loop's body for one yielded item
Consume(msgs) ==
    IF endpoint = "enhance"
    THEN /\ chunks' = Append(chunks, Len(msgs))
         /\ response_content' = response_content \o ChunkText(msgs)
    ELSE /\ chunks' = chunks \o [i \in 1..(Len(msgs) - Len(messages)) |->
                                    Len(messages) + i]
         /\ response_content' = response_content

\* server.py 117-138: the prompt is built
FormatPrompt ==
    /\ pc = "format"
    /\ pc' = "stream"
    /\ response_content' = << >>
    /\ UNCHANGED << endpoint, request, messages, node, steps, chunks, response,
                    status, exc, invocations >>

\* agent.stream starts: the input becomes the graph's state; stream mode
\* "values" yields it as the first snapshot
StartStream ==
    /\ pc = "stream" /\ messages = << >>
    /\ messages' = << HumanMessage(IF endpoint = "enhance"
                                   THEN PromptText(request) ELSE request.query) >>
    /\ IF endpoint = "enhance"
       THEN Consume(messages')
       ELSE UNCHANGED << chunks, response_content >>
    /\ UNCHANGED << endpoint, request, pc, node, steps, response, status, exc,
                    invocations >>

Running == pc = "stream" /\ messages /= << >> /\ steps < StepLimit

\* node "agent": call_model appends the model's reply, should_continue routes
AgentStep(replies) ==
    /\ Running /\ node = "agent"
    /\ \E reply \in replies :
          /\ messages' = Append(messages, AIMessage(reply))
          /\ node' = should_continue(messages')
          /\ Consume(messages')
    /\ steps' = steps + 1
    /\ UNCHANGED << endpoint, request, pc, response, status, exc, invocations >>

\* node "agent": llm.invoke raises
AgentRaises ==
    /\ Running /\ node = "agent"
    /\ HandleException("model call failed")
    /\ UNCHANGED << endpoint, request, messages, node, steps, chunks,
                    response_content, invocations >>

\* node "memory_crew": the ToolNode runs the capability once per tool call
\* of the last message and appends one ToolMessage per call
ToolStep(kickoffs) ==
    /\ Running /\ node = "memory_crew"
    /\ \E kicks \in [1..messages[Len(messages)].tool_calls -> kickoffs] :
          IF \E i \in DOMAIN kicks : enhance_memory_response(kicks[i]).raised
          THEN /\ HandleException("crew failed")
               /\ UNCHANGED << messages, node, steps, chunks, response_content >>
          ELSE /\ messages' = messages \o
                     [i \in DOMAIN kicks |->
                         ToolMessage(enhance_memory_response(kicks[i]).text, kicks[i])]
               /\ node' = "agent"
               /\ steps' = steps + 1
               /\ Consume(messages')
               /\ UNCHANGED << pc, response, status, exc >>
    /\ invocations' = invocations + messages[Len(messages)].tool_calls
    /\ UNCHANGED << endpoint, request >>

\* the graph runtime: the step limit is used up and the graph is not at END
LimitAbort ==
    /\ pc = "stream" /\ messages /= << >>
    /\ steps = StepLimit /\ node /= "END"
    /\ HandleException("recursion limit")
    /\ UNCHANGED << endpoint, request, messages, node, steps, chunks,
                    response_content, invocations >>

\* the graph is at END: the stream is exhausted; POST /enhance returns the
\* response of the try block
Respond ==
    /\ pc = "stream" /\ node = "END"
    /\ pc' = "done"
    /\ status' = "200"
    /\ response' = IF endpoint = "enhance"
                   THEN << SuccessResponse(request, response_content) >>
                   ELSE << >>
    /\ UNCHANGED << endpoint, request, messages, node, steps, chunks,
                    response_content, exc, invocations >>

\* a statement of the try block other than the graph's run raises: while
\* the prompt is built, or while the response is
Fault ==
    /\ endpoint = "enhance"
    /\ pc = "format" \/ (pc = "stream" /\ node = "END")
    /\ HandleException("handler step failed")
    /\ UNCHANGED << endpoint, request, messages, node, steps, chunks,
                    response_content, invocations >>

Init == InitWith(FewRequests, ChatInputs)

Next ==
    \/ FormatPrompt
    \/ StartStream
    \/ AgentStep(ModelReplies)
    \/ AgentRaises
    \/ ToolStep(FewKickoffs)
    \/ LimitAbort
    \/ Respond
    \/ Fault

Spec == Init /\ [][Next]_vars

\* the for loop drives the generator until it is exhausted or raises
FairSpec == Spec /\ WF_vars(Next)

\* every request within the bounds, a model of few words, a crew that fails
InitRequests == InitWith(WideRequests, ChatInputs)

NextRequests ==
    \/ FormatPrompt
    \/ StartStream
    \/ AgentStep(SimpleReplies)
    \/ AgentRaises
    \/ ToolStep(OnlyRaises)
    \/ LimitAbort
    \/ Respond
    \/ Fault

RequestSpec == InitRequests /\ [][NextRequests]_vars

\* one request, a model that asks for the capability once, every crew result
InitCrew ==
    InitWith({ BrowserMemoryRequest(<< "wassup" >>, << MemoryA >>, << >>) }, { })

AskOnce ==
    IF invocations = 0 THEN { [content |-> << >>, tool_calls |-> 1] }
    ELSE { [content |-> << "Hey! Not much." >>, tool_calls |-> 0] }

NextCrew ==
    \/ FormatPrompt
    \/ StartStream
    \/ AgentStep(AskOnce)
    \/ ToolStep(AllKickoffs)
    \/ Respond

CrewSpec == InitCrew /\ [][NextCrew]_vars

(***************************************************************************)
(* What the properties below speak of.                                     *)
(***************************************************************************)
EnhanceDone == endpoint = "enhance" /\ pc = "done"

\* POST /enhance returned the response of its try block
EnhanceSucceeded == EnhanceDone /\ exc = "none" /\ response /= << >>

Memories == request.relevantMemories

Insights == response[1].agentInsights

Enhanced == response[1].enhancedResponse

\* kickoff raised in some invocation of the capability during this run
CrewRaised ==
    \E i \in DOMAIN messages :
        messages[i].type = "tool" /\ messages[i].crew[1].raises

NumberTokens == { Digits[i] : i \in DOMAIN Digits } \cup { "." }

\* the number n stands in the text, not as part of a longer number
MentionsNumber(text, n) ==
    \E i \in 1..(Len(text) - Len(NatStr(n)) + 1) :
        /\ SubSeq(text, i, i + Len(NatStr(n)) - 1) = NatStr(n)
        /\ i = 1 \/ text[i - 1] \notin NumberTokens
        /\ i + Len(NatStr(n)) > Len(text)
           \/ text[i + Len(NatStr(n))] \notin NumberTokens

(***************************************************************************)
(* C1                                                                      *)
(***************************************************************************)
\* C1 as stated: if the crew kickoff raises during a POST /enhance call, the
\* call returns HTTP 200 and enhancedResponse contains the literal query
\* text and, when relevantMemories is non-empty, mentions their number.
C1_AsStated ==
    (EnhanceDone /\ CrewRaised) =>
        /\ status = "200" /\ response /= << >>
        /\ Contains(Enhanced, request.query)
        /\ Memories /= << >> => MentionsNumber(Enhanced, Len(Memories))

\* C1 amended: if the crew kickoff raises during a POST /enhance call, the
\* call returns HTTP 200 and enhancedResponse contains the literal query
\* text.  The capability turns the failure into its fallback text, so unless
\* another step raises the call takes the success path: enhancedResponse
\* then contains that fallback text and the response carries no error
\* marker; the number of memories is mentioned when another step raised and
\* the except block wrote the response.
C1_CrewFailureIsMasked ==
    (EnhanceDone /\ CrewRaised) =>
        /\ status = "200" /\ response /= << >>
        /\ Contains(Enhanced, request.query)
        /\ exc = "none" =>
              /\ Contains(Enhanced, Fallback)
              /\ "fallback" \notin DOMAIN Insights
        /\ (exc /= "none" /\ Memories /= << >>) =>
              MentionsNumber(Enhanced, Len(Memories))

\* the crew raised, memories were supplied, the call returned from the try block
C1_Witness ==
    EnhanceSucceeded /\ CrewRaised /\ Memories /= << >> /\ status = "200"

(***************************************************************************)
(* C2                                                                      *)
(***************************************************************************)
ApologyOpening ==
    << "I apologize, but I encountered an error while processing your request. Here's what I can tell you based on your query '" >>

RECURSIVE MinExponent(_, _)
MinExponent(ms, i) ==
    IF i = Len(ms) THEN ms[i].similarity.e
    ELSE MinInt(ms[i].similarity.e, MinExponent(ms, i + 1))

\* the exact sum of the similarities, in units of 2^e
RECURSIVE ExactSum(_, _, _)
ExactSum(ms, i, e) ==
    IF i > Len(ms) THEN << >>
    ELSE AddNat(ShiftL(ms[i].similarity.m, ms[i].similarity.e - e),
                ExactSum(ms, i + 1, e))

\* the double nearest to the exact mean of the similarities
NearestToMean(ms) ==
    Only({ RoundNearestEven(QuotientWithSticky(ExactSum(ms, 1, e), Len(ms)),
                            e - (Len(ms) + 3)) :
             e \in { MinExponent(ms, 1) } })

\* |n * x - sum| * 2^52 <= n * sum, for n the number of similarities
WithinRounding(x, ms) ==
    Only({ Only({ LeqNat(ShiftL(AbsDiff(MulSmall(ShiftL(x.m, x.e - e), Len(ms)),
                                        total),
                                SignificandBits - 1),
                         MulSmall(total, Len(ms))) :
                    total \in { ExactSum(ms, 1, e) } }) :
             e \in { MinInt(MinExponent(ms, 1), x.e) } })

\* 0.6000000000000001 = 0x1.3333333333334p-1
Float0_6000000000000001 ==
    PyFloat(FromHex(<< 1, 3, 3, 3, 3, 3, 3, 3, 3, 3, 3, 3, 3, 4 >>), 0 - 53)

\* 0.8000000000000002 = 0x1.999999999999bp-1
Float0_8000000000000002 ==
    PyFloat(FromHex(<< 1, 9, 9, 9, 9, 9, 9, 9, 9, 9, 9, 9, 9, 11 >>), 0 - 53)

\* C3 as stated: in the response of a call that succeeded, averageRelevance
\* is the arithmetic mean of the similarities (as a double: the double
\* nearest to it) when the array is non-empty, and 0 when it is empty.
C3_AsStated ==
    EnhanceSucceeded =>
        IF Memories = << >> THEN Insights.averageRelevance = PyInt(0)
        ELSE Insights.averageRelevance = NearestToMean(Memories)

\* C3 amended: in the response of a call that succeeded, averageRelevance is
\* the int 0 for an empty array, and otherwise the double that dividing the
\* left-to-right floating-point sum by the count gives.  It is within a
\* relative n * 2^-52 of the arithmetic mean of the n similarities, and need
\* not be the double nearest to it: 0.8 and 0.4 give 0.6000000000000001,
\* and 0.8 three times gives 0.8000000000000002.
C3_MeanUpToRounding ==
    EnhanceSucceeded =>
        /\ Memories = << >> => Insights.averageRelevance = PyInt(0)
        /\ Memories /= << >> =>
              /\ Insights.averageRelevance.type = "float"
              /\ BitLen(Insights.averageRelevance.m) = SignificandBits
              /\ WithinRounding(Insights.averageRelevance, Memories)
        /\ Memories = << MemoryA, MemoryB >> =>
              Insights.averageRelevance = Float0_6000000000000001
        /\ Memories = << MemoryA, MemoryA, MemoryA >> =>
              Insights.averageRelevance = Float0_8000000000000002

\* a call succeeded whose average is not the double nearest to the mean
C3_Witness ==
    /\ EnhanceSucceeded
    /\ Len(Memories) = MaxMemories
    /\ Insights.averageRelevance /= NearestToMean(Memories)

(***************************************************************************)
(* C4                                                                      *)
(***************************************************************************)
\* titles is the first three titles of the memories, in their order, or
\* all of them when there are fewer than three
IsFirstThreeTitles(titles) ==
    /\ Len(titles) = (IF Len(Memories) >= 3 THEN 3 ELSE Len(Memories))
    /\ \A i \in 1..Len(titles) : titles[i] = Memories[i].title

\* C4 as stated: for any relevantMemories array sent to POST /enhance, the
\* response's agentInsights.topTopics is the first three titles in input
\* order, or all titles when there are fewer than three.
C4_AsStated ==
    EnhanceDone =>
        /\ response /= << >>
        /\ "topTopics" \in DOMAIN Insights
        /\ IsFirstThreeTitles(Insights.topTopics)

\* C4 amended: in the response of a call that succeeded, topTopics is the
\* first three titles in input order, or all titles when there are fewer
\* than three; the response of a call in which a step raised carries the
\* error marker and no topTopics.
C4_TopTopicsOnSuccess ==
    EnhanceDone =>
        /\ response /= << >>
        /\ exc = "none" =>
              /\ "topTopics" \in DOMAIN Insights
              /\ IsFirstThreeTitles(Insights.topTopics)
              /\ Insights.memoriesAnalyzed = Len(Memories)
        /\ exc /= "none" => DOMAIN Insights = { "error", "fallback" }

\* a call succeeded with more than three memories, not all of one title
C4_Witness ==
    /\ EnhanceSucceeded
    /\ Len(Memories) > 3
    /\ Memories[1].title /= Memories[2].title
    /\ Memories[4].title /= Memories[3].title
    /\ Len(Insights.topTopics) = 3

(***************************************************************************)
(* C5                                                                      *)
(***************************************************************************)
\* tokens of the joined text before the i-th context string
RECURSIVE OffsetOf(_, _)
OffsetOf(cs, i) == IF i = 1 THEN 0 ELSE OffsetOf(cs, i - 1) + Len(cs[i - 1]) + 1

\* tokens of the N strings joined by single separators
JoinedLen(cs) == OffsetOf(cs, Len(cs)) + Len(cs[Len(cs)])

\* the prompt handed to the graph
Prompt == messages[1].content

\* C5: in the prompt POST /enhance hands to the graph, a userContext of
\* N >= 1 strings stands after the "User Context:" heading as those N
\* strings in their order, with a newline between neighbours and nothing
\* else; an empty userContext stands as "No previous context".
C5_ContextRendering ==
    (endpoint = "enhance" /\ messages /= << >>) =>
        LET cs == request.userContext
            start == Len(Prompt) - (IF cs = << >> THEN 1 ELSE JoinedLen(cs))
        IN  /\ start >= 1
            /\ Prompt[start] = "\n\nUser Context:\n"
            /\ cs = << >> => Prompt[Len(Prompt)] = "No previous context"
            /\ \A i \in 1..Len(cs) :
                  /\ SubSeq(Prompt, start + OffsetOf(cs, i) + 1,
                            start + OffsetOf(cs, i) + Len(cs[i])) = cs[i]
                  /\ i < Len(cs) =>
                        Prompt[start + OffsetOf(cs, i) + Len(cs[i]) + 1] = "\n"

\* the prompt of a request with two different context strings is in the graph
C5_Witness ==
    /\ endpoint = "enhance" /\ messages /= << >>
    /\ Len(request.userContext) = 2
    /\ request.userContext[1] /= request.userContext[2]
    /\ Len(messages) > 1

(***************************************************************************)
(* C6                                                                      *)
(***************************************************************************)
LastMessage == messages[Len(messages)]

\* the messages the step appended
Appended == SubSeq(messages', Len(messages) + 1, Len(messages'))

\* the router's states: "agent" is AwaitingModel, "memory_crew" is
\* InvokingCapability, "END" is Done
RouterStep ==
    /\ node = "END" => node' = "END" /\ messages' = messages
    /\ (node = "agent" /\ messages /= << >> /\ messages' /= messages) =>
          /\ Len(Appended) = 1 /\ Appended[1].type = "ai"
          /\ node' = (IF Appended[1].tool_calls > 0 THEN "memory_crew" ELSE "END")
    /\ (node = "agent" /\ node' /= "agent") =>
          /\ messages' /= messages
          /\ node' = "memory_crew" <=> messages'[Len(messages')].tool_calls > 0
          /\ node' = "END" <=> messages'[Len(messages')].tool_calls = 0
    /\ (node = "memory_crew" /\ (node' /= node \/ messages' /= messages)) =>
          /\ node' = "agent"
          /\ Len(Appended) = LastMessage.tool_calls
          /\ \A i \in DOMAIN Appended :
                /\ Appended[i].type = "tool"
                /\ Appended[i].content =
                      enhance_memory_response(Appended[i].crew[1]).text
    /\ invocations' /= invocations =>
          /\ node = "memory_crew"
          /\ LastMessage.type = "ai" /\ LastMessage.tool_calls > 0

\* C6: the router moves from AwaitingModel to InvokingCapability exactly
\* when the model's reply carries a tool call and to Done exactly when it
\* carries none, from InvokingCapability only to AwaitingModel with the
\* capability's text appended to the conversation, and never leaves Done;
\* the capability runs only for a model reply that asked for it.
C6_RouterTransitions ==
    /\ [][RouterStep]_vars
    /\ [](node \in { "agent", "memory_crew", "END" })
    /\ [](node = "memory_crew" =>
             LastMessage.type = "ai" /\ LastMessage.tool_calls > 0)

\* the capability ran and control is back with the model
C6_Witness ==
    /\ node = "agent" /\ messages /= << >>
    /\ LastMessage.type = "tool"
    /\ invocations > 0

(***************************************************************************)
(* C7                                                                      *)
(***************************************************************************)
ToolMessagesAfter(i) ==
    Cardinality({ j \in DOMAIN messages :
                    /\ j > i /\ j <= i + messages[i].tool_calls
                    /\ messages[j].type = "tool" })

\* C7: a kickoff that raises becomes the fallback text of an ordinary tool
\* message; the failure reaches neither the graph nor the HTTP handler; the
\* capability has run once for each tool call answered so far and never
\* again for the same call.
C7_FailureBecomesFallback ==
    /\ \A i \in DOMAIN messages :
          (messages[i].type = "tool" /\ messages[i].crew[1].raises) =>
              messages[i].content = Fallback
    /\ exc /= "crew failed"
    /\ invocations =
          Cardinality({ i \in DOMAIN messages : messages[i].type = "tool" })
    /\ \A i \in DOMAIN messages :
          (messages[i].type = "ai" /\ i < Len(messages)) =>
              /\ ToolMessagesAfter(i) = messages[i].tool_calls
              /\ i + messages[i].tool_calls < Len(messages) =>
                    messages[i + messages[i].tool_calls + 1].type = "ai"

\* kickoff raised, the model then answered, and the call returned normally
C7_Witness ==
    /\ EnhanceSucceeded /\ CrewRaised /\ node = "END"
    /\ LastMessage.type = "ai"

(***************************************************************************)
(* C8                                                                      *)
(***************************************************************************)
HasLastTask(kick) == kick.hasTasks /\ kick.tasks_output /= << >>

\* the text the policy as stated picks from a crew result
StatedChoice(kick) ==
    IF kick.hasRaw /\ kick.raw /= << >> THEN kick.raw
    ELSE IF HasLastTask(kick) /\ LastTask(kick).hasRaw THEN LastTask(kick).raw
    ELSE kick.str

\* the text the code reads for a crew result
CodeChoice(kick) ==
    IF kick.hasRaw /\ kick.raw /= << >> THEN kick.raw
    ELSE IF HasLastTask(kick) /\ LastTask(kick).hasRaw /\ LastTask(kick).raw /= << >>
    THEN LastTask(kick).raw
    ELSE kick.str

\* t is s without its leading and trailing whitespace
IsStripped(t, s) ==
    /\ t /= << >> => ~IsSpace(t[1]) /\ ~IsSpace(t[Len(t)])
    /\ \E i \in 0..Len(s) :
          /\ i + Len(t) <= Len(s)
          /\ SubSeq(s, i + 1, i + Len(t)) = t
          /\ \A j \in 1..i : IsSpace(s[j])
          /\ \A j \in (i + Len(t) + 1)..Len(s) : IsSpace(s[j])

ToolResults ==
    { i \in DOMAIN messages :
        messages[i].type = "tool" /\ ~messages[i].crew[1].raises }

\* C8 as stated: the capability returns the result's raw text when that is
\* present and non-empty, otherwise the last task's raw output when that is
\* present, otherwise str() of the result.
C8_AsStated ==
    \A i \in ToolResults : messages[i].content = StatedChoice(messages[i].crew[1])

\* C8 amended: the capability returns, stripped of leading and trailing
\* whitespace, the result's raw text when that is present and non-empty
\* (whitespace alone counts as non-empty and gives the empty text),
\* otherwise the last task's raw output when that is present and non-empty,
\* otherwise str() of the result.
C8_StrippedExtraction ==
    \A i \in ToolResults :
        IsStripped(messages[i].content, CodeChoice(messages[i].crew[1]))

\* the capability fell back to the last of several tasks, whose raw output
\* ends in whitespace
C8_Witness ==
    \E i \in ToolResults :
        /\ ~(messages[i].crew[1].hasRaw /\ messages[i].crew[1].raw /= << >>)
        /\ Len(messages[i].crew[1].tasks_output) = CrewTasks
        /\ messages[i].crew[1].tasks_output[1].raw = << >>
        /\ messages[i].content = << "task" >>
        /\ pc = "done"

(***************************************************************************)
(* C9                                                                      *)
(***************************************************************************)
NodeFailures == { "model call failed", "crew failed", "handler step failed" }

\* C9 as stated: every run of the graph that no failing step cuts short
\* ends in the graph's terminal state, the model having issued a reply with
\* no tool call, whatever the model replies.
C9_AsStated ==
    (pc = "done" /\ exc \notin NodeFailures) =>
        node = "END" /\ LastMessage.tool_calls = 0

\* C9 amended: every run of the graph yields finitely many items and ends.
\* It ends in the terminal state when the model issues a reply with no tool
\* call.  The graph itself puts no bound on the rounds of model and
\* capability: a model that asks for the capability in every reply is
\* stopped by the graph runtime's step limit, which ends the run with an
\* error, not in the terminal state (POST /enhance then returns its
\* apology, POST /stream_messages breaks off).  A run also ends when a
\* model call raises.  Nothing follows the end of a run.
C9_RunsEnd ==
    /\ <>(pc = "done")
    /\ [](pc = "done" =>
            /\ exc = "none" =>
                  /\ node = "END" /\ status = "200"
                  /\ LastMessage.type = "ai" /\ LastMessage.tool_calls = 0
            /\ exc = "recursion limit" =>
                  /\ node /= "END" /\ steps = StepLimit
                  /\ LastMessage.type = "tool" \/ LastMessage.tool_calls > 0)
    /\ [](IF endpoint = "enhance"
          THEN Len(chunks) = (IF messages = << >> THEN 0 ELSE steps + 1)
          ELSE Len(chunks) = (IF messages = << >> THEN 0 ELSE Len(messages) - 1))
    /\ [](steps <= StepLimit /\ Len(messages) <= 1 + StepLimit * MaxToolCalls)
    /\ [][pc /= "done"]_vars

\* POST /stream_messages broke off at the step limit
C9_Witness ==
    /\ endpoint = "stream_messages" /\ pc = "done"
    /\ exc = "recursion limit" /\ status = "stream aborted"
    /\ Len(chunks) >= StepLimit

(***************************************************************************)
(* C10                                                                     *)
(***************************************************************************)
\* the snapshots that hold message i
SnapshotsWith(i) == Cardinality({ j \in DOMAIN chunks : chunks[j] >= i })

RECURSIVE WeightedLength(_)
WeightedLength(i) ==
    IF i = 0 THEN 0
    ELSE Len(messages[i].content) * SnapshotsWith(i) + WeightedLength(i - 1)

\* C10: when POST /enhance succeeds, enhancedResponse is the concatenation,
\* over the streamed snapshots in order, of the content of every message of
\* the snapshot.  The first snapshot is the input message alone and every
\* step adds one snapshot, so the prompt is a prefix of enhancedResponse, a
\* message held by k snapshots is there k times, and enhancedResponse is
\* never the model's final reply alone.
C10_ConcatenatedSnapshots ==
    EnhanceSucceeded =>
        /\ Len(chunks) = steps + 1
        /\ chunks[1] = 1
        /\ chunks[Len(chunks)] = Len(messages)
        /\ \A j \in 1..(Len(chunks) - 1) : chunks[j] < chunks[j + 1]
        /\ Enhanced =
              Concat([j \in DOMAIN chunks |->
                         Concat([i \in 1..chunks[j] |-> messages[i].content])])
        /\ Len(Enhanced) = WeightedLength(Len(messages))
        /\ IsPrefix(Prompt, Enhanced)
        /\ Prompt /= << >>
        /\ Enhanced /= LastMessage.content

\* a call succeeded after a round with the capability and a final reply in words
C10_Witness ==
    /\ EnhanceSucceeded
    /\ Len(messages) >= 4
    /\ \E i \in DOMAIN messages : messages[i].type = "tool"
    /\ LastMessage.content /= << >>

====
